---- MODULE Spec2Model ----
(***************************************************************************)
(* A model of the shortcut detector of src/lib/ShortcutDetector.cpp:       *)
(* ShortcutDetectorPass::runOnFunction and the ChildrenSet class.          *)
(*                                                                         *)
(* A module is a row of basic blocks 0..NumBlocks-1 cut into functions of  *)
(* consecutive blocks; the pass object is run on the functions one after   *)
(* another.  A pointer is modelled as a set with at most one element: {}   *)
(* is NULL, {b} points at block b, and a ChildrenSet object is named by    *)
(* the block it was built for (the heap keeps every object ever built).    *)
(***************************************************************************)
EXTENDS Integers, Sequences, FiniteSets, TLC

\* Number of basic blocks in the analysed module.
NumBlocks == 4
\* Largest number of functions the blocks are cut into.
MaxFuncs == 2
\* Largest number of two-way blocks whose body fails the only-branch test.
MaxImpure == 1

Blocks == 0 .. (NumBlocks - 1)

VARIABLES
  starts,          \* entry blocks of the functions of the module
  term,            \* term[b]: terminator of block b, [kind, succ]
  DT,              \* the result of the DominatorTree analysis the pass requires
  body,            \* body[b]: the instruction list isOnlyBranch has read for b
  cur,             \* entry block of the function runOnFunction is working on
  pc,              \* position inside the pass
  leafset,         \* runOnFunction's local leafset
  nodeset,         \* runOnFunction's local nodeset
  SCSetMap,        \* keys of runOnFunction's local block -> ChildrenSet map
  node,            \* the heap of ChildrenSet objects, by block
  HeadNodeList,    \* the pass object's head list
  localshortcut,
  localSCset,
  localFailed,
  NumShortcut,
  NumShortcutSet,
  treeOut,         \* the trees printed by the latest dumpShortcut
  asserted,        \* the assertions of the code that have failed
  order,           \* the iteration order of the std::set nodeset (by address)
  pos,             \* conSCSetMap's nodesetI, as a position in order (0: not scanning)
  changed,         \* conSCSetMap's local changed
  scans            \* the scans of nodeset the do-while of conSCSetMap has started

vars == <<starts, term, DT, body, cur, pc, leafset, nodeset, SCSetMap, node,
          HeadNodeList, localshortcut, localSCset, localFailed,
          NumShortcut, NumShortcutSet, treeOut, asserted,
          order, pos, changed, scans>>

\* The locals of conSCSetMap that are followed when a scan is modelled
\* visit by visit.
scanVars == <<order, pos, changed, scans>>

The(S) == CHOOSE x \in S : TRUE

MAX(a, b) == IF a > b THEN a ELSE b

(***************************************************************************)
(* The host's control-flow graph.                                          *)
(***************************************************************************)
\* The entry block of the function that block b belongs to.
FuncEntry(b) == CHOOSE s \in starts : s <= b /\ \A t \in starts : t <= b => t <= s


FuncBlocks(e) == {b \in Blocks : FuncEntry(b) = e}

\* A branch may go to any block of the same function but its entry block.
Targets(S, b) ==
  LET e == CHOOSE s \in S : s <= b /\ \A t \in S : t <= b => t <= s
  IN {t \in Blocks : t > e /\ \A s \in S : s > e => t < s}

RECURSIVE SortedSeq(_)
SortedSeq(S) ==
  IF S = {} THEN <<>>
  ELSE LET m == CHOOSE x \in S : \A y \in S : x <= y
       IN <<m>> \o SortedSeq(S \ {m})

\* The terminators a block can end in: a conditional branch (two successors,
\* possibly equal), an unconditional branch, or another terminator (a return
\* with no successor, a switch with several).
TermChoices(T) ==
  {[kind |-> "cbr", succ |-> <<a, b>>] : a \in T, b \in T}
  \cup {[kind |-> "br", succ |-> <<a>>] : a \in T}
  \cup {[kind |-> "other", succ |-> SortedSeq(X)] :
          X \in {Y \in SUBSET T : Cardinality(Y) # 1}}

Succs(t, b) == {t[b].succ[i] : i \in 1 .. Len(t[b].succ)}

Successors(b) == Succs(term, b)

\* The blocks reachable in the graph t from the blocks R along paths that
\* avoid the blocks X.
RECURSIVE ReachFrom(_, _, _)
ReachFrom(t, R, X) ==
  LET N == R \cup {x \in Blocks \ X : \E b \in R : x \in Succs(t, b)}
  IN IF N = R THEN R ELSE ReachFrom(t, N, X)

Reach(t, e, X) == IF e \in X THEN {} ELSE ReachFrom(t, {e}, X)

\* The entry block of the function of block b when the functions start at S.
EntryOf(S, b) == CHOOSE s \in S : s <= b /\ \A x \in S : x <= b => x <= s

\* The DominatorTree analysis of every function of the module: the blocks
\* reachable from their function's entry, and the pairs <<a, b>> with
\* a dominating b.  A block dominates itself, an unreachable block is
\* dominated by everything and dominates nothing else; otherwise a
\* dominates b when no path from the entry reaches b around a.
DominatorTree(S, t) ==
  [reachable |-> {b \in Blocks : b \in Reach(t, EntryOf(S, b), {})},
   dom |-> {p \in Blocks \X Blocks :
              p[1] = p[2] \/ p[2] \notin Reach(t, EntryOf(S, p[2]), {p[1]})}]

isReachableFromEntry(b) == b \in DT.reachable

dominates(a, b) == <<a, b>> \in DT.dom

(***************************************************************************)
(* The instructions of a block, as far as isOnlyBranch reads them: whether *)
(* the instruction may write memory, and where its users are (in this      *)
(* block at a position, or in another block).                              *)
(***************************************************************************)
BodyNames == {"cmp", "store", "escape", "phi"}

BodyInsts(name) ==
  CASE name = "cmp" ->
         << [writes |-> FALSE, users |-> {[inBB |-> TRUE, pos |-> 2]}],
            [writes |-> FALSE, users |-> {}] >>
    [] name = "store" ->
         << [writes |-> TRUE, users |-> {}],
            [writes |-> FALSE, users |-> {[inBB |-> TRUE, pos |-> 3]}],
            [writes |-> FALSE, users |-> {}] >>
    [] name = "escape" ->
         << [writes |-> FALSE,
             users |-> {[inBB |-> TRUE, pos |-> 2], [inBB |-> FALSE, pos |-> 1]}],
            [writes |-> FALSE, users |-> {}] >>
    [] name = "phi" ->
         << [writes |-> FALSE, users |-> {[inBB |-> TRUE, pos |-> 2]}],
            [writes |-> FALSE,
             users |-> {[inBB |-> TRUE, pos |-> 1], [inBB |-> TRUE, pos |-> 3]}],
            [writes |-> FALSE, users |-> {}] >>

isTwowayBranch(b) == term[b].kind = "cbr"

\* InstMark holds the instructions up to and including the current one.
isOnlyBranch(insts) ==
  \A k \in 1 .. Len(insts) :
    /\ ~insts[k].writes
    /\ \A u \in insts[k].users : u.inBB /\ u.pos > k

\* isJumpBack with the arguments of dominates exchanged.
isJumpBack_Swapped(b, target) == dominates(b, target)

isJumpBack(b, target) == dominates(target, b)

\* hasBackEdge asking for a back edge that comes into the block.
hasBackEdge_Incoming(b) ==
  IF term[b].kind \in {"br", "cbr"}
  THEN \E x \in Blocks : b \in Succs(term, x) /\ dominates(b, x)
  ELSE TRUE

hasBackEdge(b) ==
  IF term[b].kind \in {"br", "cbr"}
  THEN \/ isJumpBack(b, term[b].succ[1])
       \/ (term[b].kind = "cbr" /\ isJumpBack(b, term[b].succ[2]))
  ELSE TRUE

\* The test of the classification loop of runOnFunction.
isLeafOnly(b) ==
  ~isReachableFromEntry(b) \/ ~isTwowayBranch(b) \/ hasBackEdge(b)

\* The blocks the loop puts in nodeset, and, given the instruction lists g
\* of those blocks, the blocks it puts in leafset.
ClassifyNode(F) == {b \in F : ~isLeafOnly(b)}

\* ClassifyLeaf without the demotion of line 179.
ClassifyLeaf_NoDemote(F, N, g) == F \ N

ClassifyLeaf(F, N, g) == (F \ N) \cup {b \in N : ~isOnlyBranch(BodyInsts(g[b]))}

(***************************************************************************)
(* ChildrenSet objects.                                                    *)
(***************************************************************************)
NoNode ==
  [exists |-> FALSE, level |-> 0, head |-> FALSE, haveSC |-> FALSE,
   isleftSC |-> FALSE, isrightSC |-> FALSE, uplink |-> {}, momLchild |-> FALSE,
   nummidnodes |-> 0, SCmidnodeset |-> {}, mySCpath |-> <<>>,
   leftchildBB |-> {}, rightchildBB |-> {},
   leftchildrenset |-> {}, rightchildrenset |-> {},
   SCnum |-> 0, out0 |-> {}, out1 |-> {}, inEdges |-> <<>>]

\* init without the + 1.
init_NoIncrement(leftlevel, rightlevel) ==
  [NoNode EXCEPT !.exists = TRUE, !.level = MAX(leftlevel, rightlevel)]

\* ChildrenSet::init
init(leftlevel, rightlevel) ==
  [NoNode EXCEPT !.exists = TRUE, !.level = MAX(leftlevel, rightlevel) + 1]

\* setUplink(mom, isLchild) on the object of block c in heap h.
setUplink(h, c, mom, isLchild) ==
  [h EXCEPT ![c].uplink = {mom}, ![c].momLchild = isLchild]

\* invalidateHead() on the object of block c in heap h.
invalidateHead(h, c) == [h EXCEPT ![c].head = FALSE]

\* isShortcutLoop that pushes a chain child without setting its back-link.
RECURSIVE isShortcutLoop_NoUplink(_, _, _, _)
isShortcutLoop_NoUplink(h, key, WorkList, Marked) ==
  IF WorkList = <<>> THEN [find |-> {}, lastLeft |-> 0, heap |-> h]
  ELSE
    LET curNode == Head(WorkList)
        rest == Tail(WorkList)
        n == h[curNode]
        lc == n.leftchildrenset
        rc == n.rightchildrenset
        visitL == lc # {} /\ lc \cap Marked = {}
        w1 == IF visitL THEN Append(rest, The(lc)) ELSE rest
        m1 == IF visitL THEN Marked \cup lc ELSE Marked
        visitR == rc # {} /\ rc \cap m1 = {}
        w2 == IF visitR THEN Append(w1, The(rc)) ELSE w1
        m2 == IF visitR THEN m1 \cup rc ELSE m1
    IN IF key \in n.leftchildBB
         THEN [find |-> {curNode}, lastLeft |-> 1, heap |-> h]
       ELSE IF key \in n.rightchildBB
         THEN [find |-> {curNode}, lastLeft |-> -1, heap |-> h]
       ELSE IF visitL /\ key \in lc
         THEN [find |-> {curNode}, lastLeft |-> 1, heap |-> h]
       ELSE IF visitR /\ key \in rc
         THEN [find |-> {curNode}, lastLeft |-> -1, heap |-> h]
       ELSE isShortcutLoop_NoUplink(h, key, w2, m2)

\* The while loop of ChildrenSet::isShortcut: WorkList is the list of objects
\* still to visit, Marked the objects pushed so far.  The result is the
\* matched object (find, NULL when the list runs empty), *lastLeft, and the
\* heap with the back-links the search has set.
RECURSIVE isShortcutLoop(_, _, _, _)
isShortcutLoop(h, key, WorkList, Marked) ==
  IF WorkList = <<>> THEN [find |-> {}, lastLeft |-> 0, heap |-> h]
  ELSE
    LET curNode == Head(WorkList)
        rest == Tail(WorkList)
        n == h[curNode]
        lc == n.leftchildrenset
        rc == n.rightchildrenset
        visitL == lc # {} /\ lc \cap Marked = {}
        h1 == IF visitL THEN setUplink(h, The(lc), curNode, TRUE) ELSE h
        w1 == IF visitL THEN Append(rest, The(lc)) ELSE rest
        m1 == IF visitL THEN Marked \cup lc ELSE Marked
        visitR == rc # {} /\ rc \cap m1 = {}
        h2 == IF visitR THEN setUplink(h1, The(rc), curNode, FALSE) ELSE h1
        w2 == IF visitR THEN Append(w1, The(rc)) ELSE w1
        m2 == IF visitR THEN m1 \cup rc ELSE m1
    IN IF key \in n.leftchildBB
         THEN [find |-> {curNode}, lastLeft |-> 1, heap |-> h]
       ELSE IF key \in n.rightchildBB
         THEN [find |-> {curNode}, lastLeft |-> -1, heap |-> h]
       ELSE IF visitL /\ key \in lc
         THEN [find |-> {curNode}, lastLeft |-> 1, heap |-> h]
       ELSE IF visitR /\ key \in rc
         THEN [find |-> {curNode}, lastLeft |-> -1, heap |-> h1]
       ELSE isShortcutLoop(h2, key, w2, m2)

\* ChildrenSet::isShortcut(key, root, &lastLeft)
isShortcut(h, key, root) == isShortcutLoop(h, key, <<root>>, {root})

\* The while loop of ChildrenSet::getmySCpath; ok is FALSE when the walk
\* meets a null back-link (the assertion of line 597).
RECURSIVE getmySCpathLoop(_, _, _, _, _, _)
getmySCpathLoop(h, findMidnode, pathstart, path, midnode, fuel) ==
  IF findMidnode = pathstart
    THEN [ok |-> TRUE, path |-> path, nummidnodes |-> midnode]
  ELSE IF h[findMidnode].uplink = {} \/ fuel = 0
    THEN [ok |-> FALSE, path |-> <<h[findMidnode].momLchild>> \o path,
          nummidnodes |-> midnode + 1]
  ELSE getmySCpathLoop(h, The(h[findMidnode].uplink), pathstart,
                       <<h[findMidnode].momLchild>> \o path, midnode + 1, fuel - 1)

\* ChildrenSet::getmySCpath(findMidnode, pathstart, lastLeft, &nummidnodes)
getmySCpath(h, findMidnode, pathstart, lastLeft) ==
  getmySCpathLoop(h, findMidnode, pathstart, <<lastLeft = 1>>, 1, NumBlocks)

\* absorb counting every object of the path, head or not.
absorb_CountAll(acc, c) ==
  IF acc.heap[c].head
    THEN [acc EXCEPT !.heap = invalidateHead(acc.heap, c),
                     !.totalSC = acc.totalSC + acc.heap[c].SCnum,
                     !.set = acc.set \cup acc.heap[c].SCmidnodeset \cup {c}]
    ELSE [acc EXCEPT !.totalSC = acc.totalSC + 1, !.set = acc.set \cup {c}]

\* absorb that leaves the head flag of an absorbed head set.
absorb_KeepHead(acc, c) ==
  IF acc.heap[c].head
    THEN [acc EXCEPT !.totalSC = acc.totalSC + acc.heap[c].SCnum,
                     !.set = acc.set \cup acc.heap[c].SCmidnodeset \cup {c}]
    ELSE [acc EXCEPT !.set = acc.set \cup {c}]

\* What ChildrenSet::getallmidnodeset does with one object of the path: a
\* head is invalidated, its count and its member set are taken over.
absorb(acc, c) ==
  IF acc.heap[c].head
    THEN [acc EXCEPT !.heap = invalidateHead(acc.heap, c),
                     !.totalSC = acc.totalSC + acc.heap[c].SCnum,
                     !.set = acc.set \cup acc.heap[c].SCmidnodeset \cup {c}]
    ELSE [acc EXCEPT !.set = acc.set \cup {c}]

\* The while loop of ChildrenSet::getallmidnodeset; ok is FALSE when the walk
\* meets a null back-link (the assertion of line 570).
RECURSIVE getallmidnodesetLoop(_, _, _, _)
getallmidnodesetLoop(acc, findMidnode, pathstart, fuel) ==
  IF findMidnode = pathstart THEN acc
  ELSE LET a1 == absorb(acc, findMidnode)
       IN IF a1.heap[findMidnode].uplink = {} \/ fuel = 0
            THEN [a1 EXCEPT !.ok = FALSE]
          ELSE getallmidnodesetLoop(a1, The(a1.heap[findMidnode].uplink),
                                    pathstart, fuel - 1)

\* ChildrenSet::getallmidnodeset(findMidnode, pathstart, &totalSCnum)
getallmidnodeset(h, findMidnode, pathstart) ==
  LET walked == getallmidnodesetLoop(
                  [ok |-> TRUE, heap |-> h, totalSC |-> 0, set |-> {}],
                  findMidnode, pathstart, NumBlocks)
  IN IF ~walked.ok THEN walked
     ELSE absorb([walked EXCEPT !.totalSC = walked.totalSC + 1], pathstart)

\* The body of `if (findMidnode = isShortcut(key, root, &leftLast)) {...}` in
\* the constructors, on the object under construction c.n and the heap c.heap.
\* onLeft says which of isleftSC and isrightSC the constructor sets.  The
\* assertion of line 424 is recorded and, as in a build without assertions,
\* the constructor goes on; a null back-link stops the run.
detect(c, key, root, onLeft, guarded) ==
  LET s == isShortcut(c.heap, key, root)
  IN IF s.find = {} THEN [c EXCEPT !.heap = s.heap]
     ELSE
       LET p == getmySCpath(s.heap, The(s.find), root, s.lastLeft)
           m == getallmidnodeset(s.heap, The(s.find), root)
           a1 == IF guarded /\ c.n.haveSC THEN c.asserted \cup {"twoSC"}
                 ELSE c.asserted
       IN IF ~p.ok
            THEN [c EXCEPT !.heap = s.heap, !.asserted = a1 \cup {"uplinkPath"},
                           !.ok = FALSE]
          ELSE IF ~m.ok
            THEN [c EXCEPT !.heap = m.heap, !.asserted = a1 \cup {"uplinkSet"},
                           !.ok = FALSE]
          ELSE [c EXCEPT
                  !.heap = m.heap,
                  !.asserted = a1,
                  !.n = [c.n EXCEPT !.head = TRUE, !.haveSC = TRUE,
                                    !.isleftSC = IF onLeft THEN TRUE ELSE @,
                                    !.isrightSC = IF onLeft THEN @ ELSE TRUE,
                                    !.mySCpath = p.path,
                                    !.nummidnodes = p.nummidnodes,
                                    !.SCmidnodeset = m.set,
                                    !.SCnum = m.totalSC]]

start(h, n) == [heap |-> h, n |-> n, asserted |-> {}, ok |-> TRUE]

\* ChildrenSet(thisBB, leftleaf, rightleaf)
ChildrenSetLeafLeaf(h, leftleaf, rightleaf) ==
  start(h, [init(0, 0) EXCEPT !.leftchildBB = {leftleaf},
                              !.rightchildBB = {rightleaf}])

\* ChildrenSet(thisBB, leftleaf, rightSet)
ChildrenSetLeafChain(h, leftleaf, rightSet) ==
  detect(start(h, [init(0, h[rightSet].level) EXCEPT
                     !.leftchildBB = {leftleaf},
                     !.rightchildrenset = {rightSet}]),
         leftleaf, rightSet, TRUE, FALSE)

\* ChildrenSet(thisBB, leftSet, rightleaf)
ChildrenSetChainLeaf(h, leftSet, rightleaf) ==
  detect(start(h, [init(h[leftSet].level, 0) EXCEPT
                     !.leftchildrenset = {leftSet},
                     !.rightchildBB = {rightleaf}]),
         rightleaf, leftSet, FALSE, FALSE)

\* The chain/chain constructor with the second search a copy of the first.
ChildrenSetChainChain_SameSide(h, leftSet, rightSet) ==
  LET first == detect(start(h, [init(h[leftSet].level, h[rightSet].level) EXCEPT
                                  !.leftchildrenset = {leftSet},
                                  !.rightchildrenset = {rightSet}]),
                      leftSet, rightSet, TRUE, FALSE)
  IN IF ~first.ok THEN first
     ELSE detect(first, leftSet, rightSet, FALSE, TRUE)

\* ChildrenSet(thisBB, leftSet, rightSet): the block of each child is looked
\* for under the other child.
ChildrenSetChainChain(h, leftSet, rightSet) ==
  LET first == detect(start(h, [init(h[leftSet].level, h[rightSet].level) EXCEPT
                                  !.leftchildrenset = {leftSet},
                                  !.rightchildrenset = {rightSet}]),
                      leftSet, rightSet, TRUE, FALSE)
  IN IF ~first.ok THEN first
     ELSE detect(first, rightSet, leftSet, FALSE, TRUE)

\* conSCSetMapVisit that looks a child up in the map before the leaf set.
conSCSetMapVisit_MapFirst(thisNode) ==
  LET leftChild == term[thisNode].succ[1]
      rightChild == term[thisNode].succ[2]
  IN IF leftChild \in SCSetMap
       THEN IF rightChild \in SCSetMap
              THEN {ChildrenSetChainChain(node, leftChild, rightChild)}
            ELSE IF rightChild \in leafset
              THEN {ChildrenSetChainLeaf(node, leftChild, rightChild)}
            ELSE {}
     ELSE IF leftChild \in leafset
       THEN IF rightChild \in SCSetMap
              THEN {ChildrenSetLeafChain(node, leftChild, rightChild)}
            ELSE IF rightChild \in leafset
              THEN {ChildrenSetLeafLeaf(node, leftChild, rightChild)}
            ELSE {}
     ELSE {}

\* What one visit of the for loop of conSCSetMap builds for block thisNode
\* when the heap is h and the map has the keys M: {} when a child is neither
\* a leaf nor in the map yet.
conSCSetMapVisitIn(h, M, thisNode) ==
  LET leftChild == term[thisNode].succ[1]
      rightChild == term[thisNode].succ[2]
  IN IF leftChild \in leafset
       THEN IF rightChild \in leafset
              THEN {ChildrenSetLeafLeaf(h, leftChild, rightChild)}
            ELSE IF rightChild \in M
              THEN {ChildrenSetLeafChain(h, leftChild, rightChild)}
            ELSE {}
     ELSE IF leftChild \in M
       THEN IF rightChild \in leafset
              THEN {ChildrenSetChainLeaf(h, leftChild, rightChild)}
            ELSE IF rightChild \in M
              THEN {ChildrenSetChainChain(h, leftChild, rightChild)}
            ELSE {}
     ELSE {}

\* The visit in the current state of the pass.
conSCSetMapVisit(thisNode) == conSCSetMapVisitIn(node, SCSetMap, thisNode)

\* verify_domination asking whether each member dominates itself.
verify_domination_Self(h, c) == \A m \in h[c].SCmidnodeset : dominates(m, m)

\* ChildrenSet::verify_domination on the object of block c.
verify_domination(h, c) == \A m \in h[c].SCmidnodeset : dominates(c, m)

\* The loop of BuildHeadNodeList over the blocks bs of the function, in
\* function order: acc is [list, failed].
RECURSIVE BuildHeadNodeListLoop(_, _)
BuildHeadNodeListLoop(acc, bs) ==
  IF bs = <<>> THEN acc
  ELSE LET BB == Head(bs)
           acc1 == IF BB \in SCSetMap /\ node[BB].head
                     THEN IF verify_domination(node, BB)
                            THEN [acc EXCEPT !.list = Append(acc.list, BB)]
                          ELSE [acc EXCEPT !.failed = acc.failed + 1]
                   ELSE acc
       IN BuildHeadNodeListLoop(acc1, Tail(bs))

\* ChildrenSet::conEdgeGraph(midnodeset) on the object of block c: an Edge is
\* [from, to]; ChildrenSet::addinEdges appends to the target's inEdges.
conEdgeGraphNode(h, c, midnodeset) ==
  LET n == h[c]
      e0 == [from |-> c,
             to |-> IF n.leftchildBB # {} THEN The(n.leftchildBB)
                    ELSE The(n.leftchildrenset)]
      h0 == [h EXCEPT ![c].out0 = {e0}]
      h1 == IF n.leftchildBB = {} /\ The(n.leftchildrenset) \in midnodeset
              THEN [h0 EXCEPT ![The(n.leftchildrenset)].inEdges = Append(@, e0)]
            ELSE h0
      e1 == [from |-> c,
             to |-> IF n.rightchildBB # {} THEN The(n.rightchildBB)
                    ELSE The(n.rightchildrenset)]
      h2 == [h1 EXCEPT ![c].out1 = {e1}]
  IN IF n.rightchildBB = {} /\ The(n.rightchildrenset) \in midnodeset
       THEN [h2 EXCEPT ![The(n.rightchildrenset)].inEdges = Append(@, e1)]
     ELSE h2

\* conEdgeGraphLoop that never puts a right child on the work list.
RECURSIVE conEdgeGraphLoop_LeftOnly(_, _, _, _)
conEdgeGraphLoop_LeftOnly(h, midnodeset, WorkList, Marked) ==
  IF WorkList = <<>> THEN h
  ELSE LET curNode == Head(WorkList)
           rest == Tail(WorkList)
           lc == h[curNode].leftchildrenset \cap midnodeset
           w1 == IF lc # {} THEN Append(rest, The(lc)) ELSE rest
       IN IF curNode \in Marked
            THEN conEdgeGraphLoop_LeftOnly(h, midnodeset, rest, Marked)
          ELSE conEdgeGraphLoop_LeftOnly(conEdgeGraphNode(h, curNode, midnodeset),
                                         midnodeset, w1, Marked \cup {curNode})

\* The worklist loop of ShortcutDetectorPass::conEdgeGraph for one head.
RECURSIVE conEdgeGraphLoop(_, _, _, _)
conEdgeGraphLoop(h, midnodeset, WorkList, Marked) ==
  IF WorkList = <<>> THEN h
  ELSE LET curNode == Head(WorkList)
           rest == Tail(WorkList)
           lc == h[curNode].leftchildrenset \cap midnodeset
           rc == h[curNode].rightchildrenset \cap midnodeset
           w1 == IF lc # {} THEN Append(rest, The(lc)) ELSE rest
           w2 == IF rc # {} THEN Append(w1, The(rc)) ELSE w1
       IN IF curNode \in Marked
            THEN conEdgeGraphLoop(h, midnodeset, rest, Marked)
          ELSE conEdgeGraphLoop(conEdgeGraphNode(h, curNode, midnodeset),
                                midnodeset, w2, Marked \cup {curNode})

\* The loop of ShortcutDetectorPass::conEdgeGraph over the head list.
RECURSIVE conEdgeGraphHeads(_, _)
conEdgeGraphHeads(h, heads) ==
  IF heads = <<>> THEN h
  ELSE conEdgeGraphHeads(
         conEdgeGraphLoop(h, h[Head(heads)].SCmidnodeset, <<Head(heads)>>, {}),
         Tail(heads))

\* One line of the printed tree.  prefix is the list of indentation steps
\* (" |" under a left child, "  " under a right child).
Line(prefix, kind, bb, to, n) ==
  [prefix |-> prefix, kind |-> kind, bb |-> bb, to |-> to,
   level |-> n.level, head |-> n.head, haveSC |-> n.haveSC,
   path |-> IF n.haveSC THEN n.mySCpath ELSE <<>>,
   isleftSC |-> n.isleftSC, isrightSC |-> n.isrightSC]

\* Edge::dump(prefix)
EdgeLines(prefix, out) ==
  IF out = {} THEN <<>>
  ELSE <<Line(prefix, "edge", The(out).from, The(out).to, NoNode)>>

\* ChildrenSet::dump(prefix, midNodesforthisSet, thissetHead) on the object
\* of block c: the lines printed and the assertions (lines 639, 640) that
\* fail on the way.
RECURSIVE dumpTree(_, _, _, _, _)
dumpTree(h, c, prefix, midNodesforthisSet, thissetHead) ==
  LET n == h[c]
      me == <<Line(prefix, "node", c, c, n)>>
      left == IF n.leftchildBB # {}
                THEN [text |-> <<Line(Append(prefix, " |"), "leaf",
                                      The(n.leftchildBB), c, NoNode)>>,
                      asserted |-> {}]
              ELSE dumpTree(h, The(n.leftchildrenset), Append(prefix, " |"),
                            midNodesforthisSet, thissetHead)
      right == IF n.rightchildBB # {}
                 THEN [text |-> <<Line(Append(prefix, "  "), "leaf",
                                       The(n.rightchildBB), c, NoNode)>>,
                       asserted |-> {}]
               ELSE dumpTree(h, The(n.rightchildrenset), Append(prefix, "  "),
                             midNodesforthisSet, thissetHead)
  IN IF thissetHead = c \/ c \in midNodesforthisSet
       THEN [text |-> me \o EdgeLines(prefix, n.out0) \o EdgeLines(prefix, n.out1)
                         \o left.text \o right.text,
             asserted |-> (IF n.out0 = {} THEN {"out0"} ELSE {})
                          \cup (IF n.out1 = {} THEN {"out1"} ELSE {})
                          \cup left.asserted \cup right.asserted]
     ELSE [text |-> me, asserted |-> {}]

\* dumpShortcutLoop adding one per head to the shortcut count.
RECURSIVE dumpShortcutLoop_CountHeads(_, _, _)
dumpShortcutLoop_CountHeads(h, acc, heads) ==
  IF heads = <<>> THEN acc
  ELSE LET thisnode == Head(heads)
           d == dumpTree(h, thisnode, <<>>, h[thisnode].SCmidnodeset, thisnode)
       IN dumpShortcutLoop_CountHeads(h,
            [text |-> acc.text
                      \o <<Line(<<>>, "start", thisnode, thisnode, NoNode)>>
                      \o d.text,
             shortcut |-> acc.shortcut + 1,
             SCset |-> acc.SCset + 1,
             asserted |-> acc.asserted \cup d.asserted
                          \cup (IF h[thisnode].head THEN {} ELSE {"notHead"})],
            Tail(heads))

\* The loop of dumpShortcut over the head list: acc is
\* [text, shortcut, SCset, asserted]; the assertions of lines 119 and 659
\* are recorded when the object is no head.
RECURSIVE dumpShortcutLoop(_, _, _)
dumpShortcutLoop(h, acc, heads) ==
  IF heads = <<>> THEN acc
  ELSE LET thisnode == Head(heads)
           d == dumpTree(h, thisnode, <<>>, h[thisnode].SCmidnodeset, thisnode)
       IN dumpShortcutLoop(h,
            [text |-> acc.text
                      \o <<Line(<<>>, "start", thisnode, thisnode, NoNode)>>
                      \o d.text,
             shortcut |-> acc.shortcut + h[thisnode].SCnum,
             SCset |-> acc.SCset + 1,
             asserted |-> acc.asserted \cup d.asserted
                          \cup (IF h[thisnode].head THEN {} ELSE {"notHead"})],
            Tail(heads))

(***************************************************************************)
(* The modules the pass is run on.                                         *)
(***************************************************************************)
RECURSIVE TermMaps(_, _)
TermMaps(S, n) ==
  IF n = 0 THEN {<<>>}
  ELSE {Append(f, t) : f \in TermMaps(S, n - 1), t \in TermChoices(Targets(S, n - 1))}

\* The instruction lists of the blocks N: at most MaxImpure of them are not
\* a bare compare-and-branch.
BodyMaps(N) ==
  {g \in [N -> BodyNames] : Cardinality({b \in N : g[b] # "cmp"}) <= MaxImpure}

Init ==
  /\ starts \in {S \in SUBSET Blocks : 0 \in S /\ Cardinality(S) <= MaxFuncs}
  /\ \E f \in TermMaps(starts, NumBlocks) : term = [b \in Blocks |-> f[b + 1]]
  /\ DT = DominatorTree(starts, term)
  /\ body = [b \in Blocks |-> "none"]
  /\ cur = 0
  /\ pc = "start"
  /\ leafset = {}
  /\ nodeset = {}
  /\ SCSetMap = {}
  /\ node = [b \in Blocks |-> NoNode]
  /\ HeadNodeList = <<>>
  /\ localshortcut = 0
  /\ localSCset = 0
  /\ localFailed = 0
  /\ NumShortcut = 0
  /\ NumShortcutSet = 0
  /\ treeOut = <<>>
  /\ asserted = {}
  /\ order = <<>>
  /\ pos = 0
  /\ changed = FALSE
  /\ scans = 0

\* runOnFunction up to the end of the classification loop; the instructions
\* of the blocks that reach isOnlyBranch are read here and nowhere else
\* ("none": never read).
Classify ==
  /\ pc = "start"
  /\ localshortcut' = 0
  /\ localSCset' = 0
  /\ localFailed' = 0
  /\ nodeset' = ClassifyNode(FuncBlocks(cur))
  /\ \E g \in BodyMaps(nodeset') :
       /\ leafset' = ClassifyLeaf(FuncBlocks(cur), nodeset', g)
       /\ body' = [b \in Blocks |-> IF b \in nodeset' THEN g[b] ELSE body[b]]
  /\ SCSetMap' = {}
  /\ pc' = "build"
  /\ UNCHANGED <<starts, term, DT, cur, node, HeadNodeList,
                 NumShortcut, NumShortcutSet, treeOut, asserted>>
  /\ UNCHANGED scanVars

\* One visit of the for loop of conSCSetMap that builds an object.  The loop
\* runs over a std::set of block addresses, so any block that can be built
\* may be the next one built.
Construct(thisNode) ==
  /\ pc = "build"
  /\ thisNode \in nodeset \ SCSetMap
  /\ \E c \in conSCSetMapVisit(thisNode) :
       /\ node' = [c.heap EXCEPT ![thisNode] = c.n]
       /\ asserted' = asserted \cup c.asserted
       /\ pc' = IF c.ok THEN "build" ELSE "abort"
  /\ SCSetMap' = SCSetMap \cup {thisNode}
  /\ UNCHANGED <<starts, term, DT, body, cur, leafset, nodeset, HeadNodeList,
                 localshortcut, localSCset, localFailed,
                 NumShortcut, NumShortcutSet, treeOut>>
  /\ UNCHANGED scanVars

\* The do-while of conSCSetMap ends with a scan that builds nothing;
\* BuildHeadNodeList and the empty ClearUselessNodesin follow.
BuildHeadNodeList ==
  /\ pc = "build"
  /\ \A b \in nodeset \ SCSetMap : conSCSetMapVisit(b) = {}
  /\ LET r == BuildHeadNodeListLoop([list |-> HeadNodeList, failed |-> localFailed],
                                    SortedSeq(FuncBlocks(cur)))
     IN /\ HeadNodeList' = r.list
        /\ localFailed' = r.failed
  /\ pc' = "edges"
  /\ UNCHANGED <<starts, term, DT, body, cur, leafset, nodeset, SCSetMap, node,
                 localshortcut, localSCset,
                 NumShortcut, NumShortcutSet, treeOut, asserted>>
  /\ UNCHANGED scanVars

\* ShortcutDetectorPass::conEdgeGraph(HeadNodeList)
conEdgeGraph ==
  /\ pc = "edges"
  /\ node' = conEdgeGraphHeads(node, HeadNodeList)
  /\ pc' = "dump"
  /\ UNCHANGED <<starts, term, DT, body, cur, leafset, nodeset, SCSetMap, HeadNodeList,
                 localshortcut, localSCset, localFailed,
                 NumShortcut, NumShortcutSet, treeOut, asserted>>
  /\ UNCHANGED scanVars

\* The functions the pass has still to run on.
LaterFuncs == {e \in starts : e > cur}

\* What dumpShortcut(HeadNodeList) prints and counts in the current state.
dumpResult ==
  dumpShortcutLoop(node, [text |-> <<>>, shortcut |-> 0, SCset |-> 0,
                          asserted |-> {}], HeadNodeList)

\* The effect of dumpShortcut on the counters and the output.
dumpShortcutBody ==
  /\ treeOut' = dumpResult.text
  /\ localshortcut' = localshortcut + dumpResult.shortcut
  /\ NumShortcut' = NumShortcut + dumpResult.shortcut
  /\ localSCset' = localSCset + dumpResult.SCset
  /\ NumShortcutSet' = NumShortcutSet + dumpResult.SCset
  /\ asserted' = asserted \cup dumpResult.asserted

\* ShortcutDetectorPass::dumpShortcut(HeadNodeList), the last step of
\* runOnFunction; the pass manager then runs the pass on the next function.
\* A missing out-edge is dereferenced, which stops the run.
dumpShortcut ==
  /\ pc = "dump"
  /\ dumpShortcutBody
  /\ IF dumpResult.asserted \cap {"out0", "out1"} # {}
       THEN pc' = "abort" /\ cur' = cur
     ELSE IF LaterFuncs = {}
       THEN pc' = "done" /\ cur' = cur
     ELSE pc' = "start" /\ cur' = CHOOSE e \in LaterFuncs :
                                    \A x \in LaterFuncs : e <= x
  /\ UNCHANGED <<starts, term, DT, body, leafset, nodeset, SCSetMap, node,
                 HeadNodeList, localFailed>>
  /\ UNCHANGED scanVars

\* dumpShortcut(HeadNodeList) called a second time, right after the first,
\* once the last function is done.
dumpShortcutAgain ==
  /\ pc = "done"
  /\ dumpShortcutBody
  /\ pc' = IF dumpResult.asserted \cap {"out0", "out1"} # {}
             THEN "abort" ELSE "redumped"
  /\ UNCHANGED <<starts, term, DT, body, cur, leafset, nodeset, SCSetMap, node,
                 HeadNodeList, localFailed>>
  /\ UNCHANGED scanVars

Next ==
  \/ Classify
  \/ \E b \in Blocks : Construct(b)
  \/ BuildHeadNodeList
  \/ conEdgeGraph
  \/ dumpShortcut

Spec == Init /\ [][Next]_vars

\* The pass with a reporter that may be run a second time.
NextRedump == Next \/ dumpShortcutAgain

SpecRedump == Init /\ [][NextRedump]_vars
(***************************************************************************)
(* conSCSetMap scan by scan.  A run of conSCSetMap is the record            *)
(* [heap, map, changed, scans, asserted, ok]: the objects, the keys of      *)
(* SCSetMap, the local changed, the scans started, the failed assertions    *)
(* and whether the run is still going.                                      *)
(***************************************************************************)
\* The iteration orders a std::set of the blocks S can have.
RECURSIVE Perms(_)
Perms(S) ==
  IF S = {} THEN {<<>>}
  ELSE UNION {{<<x>> \o p : p \in Perms(S \ {x})} : x \in S}

\* conSCSetMapInsert that sets changed but leaves the object out of SCSetMap.
conSCSetMapInsert_NoKey(st, thisNode, c) ==
  [st EXCEPT !.heap = [c.heap EXCEPT ![thisNode] = c.n],
             !.changed = TRUE,
             !.asserted = st.asserted \cup c.asserted,
             !.ok = c.ok]

\* conSCSetMapInsert that forgets to set changed.
conSCSetMapInsert_NoChanged(st, thisNode, c) ==
  [st EXCEPT !.heap = [c.heap EXCEPT ![thisNode] = c.n],
             !.map = st.map \cup {thisNode},
             !.asserted = st.asserted \cup c.asserted,
             !.ok = c.ok]

\* The new object c (the result of its constructor) is put in SCSetMap under
\* thisNode and changed is set.
conSCSetMapInsert(st, thisNode, c) ==
  [st EXCEPT !.heap = [c.heap EXCEPT ![thisNode] = c.n],
             !.map = st.map \cup {thisNode},
             !.changed = TRUE,
             !.asserted = st.asserted \cup c.asserted,
             !.ok = c.ok]

\* One iteration of the for loop of conSCSetMap, for block thisNode.
conSCSetMapIter(st, thisNode) ==
  IF ~st.ok \/ thisNode \in st.map THEN st
  ELSE LET built == conSCSetMapVisitIn(st.heap, st.map, thisNode)
       IN IF built = {} THEN st ELSE conSCSetMapInsert(st, thisNode, The(built))

\* The for loop of conSCSetMap over the blocks todo.
RECURSIVE conSCSetMapFor(_, _)
conSCSetMapFor(st, todo) ==
  IF todo = <<>> THEN st
  ELSE conSCSetMapFor(conSCSetMapIter(st, Head(todo)), Tail(todo))

\* The do-while of conSCSetMap when nodeset is iterated in the order ord.
RECURSIVE conSCSetMapDoWhile(_, _)
conSCSetMapDoWhile(st, ord) ==
  LET s1 == conSCSetMapFor([st EXCEPT !.changed = FALSE, !.scans = @ + 1], ord)
  IN IF s1.changed /\ s1.ok THEN conSCSetMapDoWhile(s1, ord) ELSE s1

\* The run of conSCSetMap as it stands in the current state.
Scanning ==
  [heap |-> node, map |-> SCSetMap, changed |-> changed, scans |-> scans,
   asserted |-> asserted, ok |-> TRUE]

\* conSCSetMap is entered: the first scan starts at nodeset.begin().
conSCSetMapEnter ==
  /\ pc = "build"
  /\ pos = 0
  /\ order' \in Perms(nodeset)
  /\ pos' = 1
  /\ changed' = FALSE
  /\ scans' = 1
  /\ UNCHANGED <<starts, term, pc, DT, body, cur, leafset, nodeset,
                 SCSetMap, node,
                 HeadNodeList, localshortcut, localSCset, localFailed,
                 NumShortcut, NumShortcutSet, treeOut, asserted>>

\* One iteration of the for loop: the block at nodesetI is visited.
conSCSetMapNext ==
  /\ pc = "build"
  /\ pos \in 1 .. Len(order)
  /\ \E st \in {conSCSetMapIter(Scanning, order[pos])} :
       /\ node' = st.heap
       /\ SCSetMap' = st.map
       /\ changed' = st.changed
       /\ asserted' = st.asserted
       /\ pc' = IF st.ok THEN "build" ELSE "abort"
  /\ pos' = pos + 1
  /\ UNCHANGED <<starts, term, DT, body, cur, leafset, nodeset, HeadNodeList,
                 localshortcut, localSCset, localFailed,
                 NumShortcut, NumShortcutSet, treeOut, order, scans>>

\* The for loop is over and changed is set: the do-while starts another scan.
conSCSetMapAgain ==
  /\ pc = "build"
  /\ pos = Len(order) + 1
  /\ changed
  /\ changed' = FALSE
  /\ pos' = 1
  /\ scans' = scans + 1
  /\ UNCHANGED <<starts, term, pc, DT, body, cur, leafset, nodeset,
                 SCSetMap, node,
                 HeadNodeList, localshortcut, localSCset, localFailed,
                 NumShortcut, NumShortcutSet, treeOut, asserted, order>>

\* The for loop is over and changed is not set: conSCSetMap returns, and
\* BuildHeadNodeList and the empty ClearUselessNodesin follow.
conSCSetMapReturn ==
  /\ pc = "build"
  /\ pos = Len(order) + 1
  /\ ~changed
  /\ LET r == BuildHeadNodeListLoop([list |-> HeadNodeList, failed |-> localFailed],
                                    SortedSeq(FuncBlocks(cur)))
     IN /\ HeadNodeList' = r.list
        /\ localFailed' = r.failed
  /\ pc' = "edges"
  /\ pos' = 0
  /\ UNCHANGED <<starts, term, DT, body, cur, leafset, nodeset, SCSetMap, node,
                 localshortcut, localSCset,
                 NumShortcut, NumShortcutSet, treeOut, asserted,
                 order, changed, scans>>

NextScan ==
  \/ Classify
  \/ conSCSetMapEnter
  \/ conSCSetMapNext
  \/ conSCSetMapAgain
  \/ conSCSetMapReturn
  \/ conEdgeGraph
  \/ dumpShortcut

\* The pass with conSCSetMap followed scan by scan.
SpecScan == Init /\ [][NextScan]_vars

(***************************************************************************)
(* The properties.                                                         *)
(***************************************************************************)
\* The classification loop has run for the function cur.
Classified == pc \in {"build", "edges", "dump", "done", "redumped", "abort"}

CurBlocks == FuncBlocks(cur)

\* The ChildrenSet objects ever built.
Built == {b \in Blocks : node[b].exists}

\* Block b is a reachable two-way branch none of whose targets dominates it.
Qualifies(b) ==
  /\ term[b].kind = "cbr"
  /\ isReachableFromEntry(b)
  /\ \A i \in 1 .. 2 : ~dominates(term[b].succ[i], b)

\* Block b went through isOnlyBranch and failed it.
NotOnlyBranch(b) == body[b] # "none" /\ ~isOnlyBranch(BodyInsts(body[b]))

\* C1 as stated: once the classification loop has run, every block of the
\* function is in exactly one of leafset and nodeset.
C1_ExactlyOne ==
  Classified => \A b \in CurBlocks : (b \in leafset) # (b \in nodeset)

\* C1 as amended: once the classification loop has run, every block of the
\* function is in leafset or in nodeset; nodeset holds exactly the reachable
\* two-way blocks without a back edge, leafset holds every other block and
\* also the blocks of nodeset that fail the only-branch test, which are so
\* in both sets.
C1_Covering ==
  Classified =>
    \A b \in CurBlocks :
      /\ b \in leafset \cup nodeset
      /\ b \in nodeset <=> Qualifies(b)
      /\ b \in leafset <=> (~Qualifies(b) \/ NotOnlyBranch(b))

C1_Witness ==
  /\ Classified
  /\ \E b \in CurBlocks : b \in leafset \cap nodeset /\ NotOnlyBranch(b)
  /\ \E b \in CurBlocks : b \in nodeset \ leafset

\* C2: every head in the head list dominates the block of every object in
\* its SCmidnodeset; a head with a member it does not dominate is not in
\* the list.
C2_ChainSoundness ==
  \A i \in 1 .. Len(HeadNodeList) :
    \A m \in node[HeadNodeList[i]].SCmidnodeset : dominates(HeadNodeList[i], m)

C2_Witness ==
  /\ pc = "edges"
  /\ \E i \in 1 .. Len(HeadNodeList) :
       Cardinality(node[HeadNodeList[i]].SCmidnodeset) >= 2

\* C3: no object has isleftSC and isrightSC both set, and the assertion of
\* the chain/chain constructor that guards the second match never fails.
C3_NoDoubleShortcut ==
  /\ "twoSC" \notin asserted
  /\ \A b \in Blocks : ~(node[b].isleftSC /\ node[b].isrightSC)

C3_Witness ==
  \E b \in Built :
    /\ node[b].leftchildrenset # {}
    /\ node[b].rightchildrenset # {}
    /\ node[b].leftchildrenset # node[b].rightchildrenset
    /\ node[b].haveSC

\* The level of a child: 0 for a leaf block, the object's level otherwise.
ChildLevel(leaf, chain) == IF leaf # {} THEN 0 ELSE node[The(chain)].level

LeafPair(b) == node[b].leftchildBB # {} /\ node[b].rightchildBB # {}

\* C4 as stated: an object with two leaf children has level 0, every other
\* object has level 1 + the larger of its children's levels, a leaf child
\* counting as level 0.
C4_LeafPairLevelZero ==
  \A b \in Built :
    node[b].level =
      IF LeafPair(b) THEN 0
      ELSE 1 + MAX(ChildLevel(node[b].leftchildBB, node[b].leftchildrenset),
                   ChildLevel(node[b].rightchildBB, node[b].rightchildrenset))

\* C4 as amended: every object has level 1 + the larger of its children's
\* levels, a leaf child counting as level 0; an object with two leaf
\* children so has level 1.
C4_Levels ==
  \A b \in Built :
    /\ node[b].level =
         1 + MAX(ChildLevel(node[b].leftchildBB, node[b].leftchildrenset),
                 ChildLevel(node[b].rightchildBB, node[b].rightchildrenset))
    /\ LeafPair(b) => node[b].level = 1

C4_Witness ==
  \E b \in Built, c \in Built :
    /\ c \in node[b].leftchildrenset \cup node[b].rightchildrenset
    /\ LeafPair(c)
    /\ node[b].level = 2
\* The objects of the matched path of the object of block b in heap h, read
\* off mySCpath: from the child the search started at, down the left (TRUE)
\* or right (FALSE) chain child for every entry but the last.
RECURSIVE Descend(_, _, _)
Descend(h, c, path) ==
  IF Len(path) <= 1 THEN {c}
  ELSE {c} \cup Descend(h,
                        IF Head(path) THEN The(h[c].leftchildrenset)
                        ELSE The(h[c].rightchildrenset),
                        Tail(path))

PathNodes(h, b) ==
  Descend(h,
          IF h[b].isleftSC THEN The(h[b].rightchildrenset)
          ELSE The(h[b].leftchildrenset),
          h[b].mySCpath)

RECURSIVE SumSCnum(_, _)
SumSCnum(h, S) ==
  IF S = {} THEN 0
  ELSE LET x == CHOOSE y \in S : TRUE IN h[x].SCnum + SumSCnum(h, S \ {x})

RECURSIVE SumSCnumList(_, _)
SumSCnumList(h, list) ==
  IF list = <<>> THEN 0 ELSE h[Head(list)].SCnum + SumSCnumList(h, Tail(list))

\* This step builds the object of block b and the object detects a shortcut.
BuildsShortcut(b) == ~node[b].exists /\ node'[b].exists /\ node'[b].haveSC

\* C5 as stated: when an object detects a shortcut, its SCnum is the number
\* of objects along the matched path: 1 for itself, the prior SCnum of every
\* head on the path, and 1 for every object on the path that is no head (so
\* 2 for B0 -> (B1, L), B1 -> (L, R)).
C5_CountsPathNodes ==
  [][\A b \in Blocks :
       BuildsShortcut(b) =>
         node'[b].SCnum =
           1 + SumSCnum(node, {x \in PathNodes(node', b) : node[x].head})
             + Cardinality({x \in PathNodes(node', b) : ~node[x].head})]_vars

\* C5 as amended: when an object detects a shortcut, its SCnum is 1 plus the
\* prior SCnum of the objects on the matched path that were heads, which are
\* exactly the objects whose head status it revokes; an object on the path
\* that is no head adds nothing (so 1 for B0 -> (B1, L), B1 -> (L, R)).  The
\* reporter adds the SCnum of the listed heads to the shortcut count.
C5_ShortcutCount ==
  [][(\A b \in Blocks :
        BuildsShortcut(b) =>
          LET revoked == {x \in Blocks : node[x].head /\ ~node'[x].head}
          IN (revoked = {x \in PathNodes(node', b) : node[x].head})
             /\ (node'[b].SCnum = 1 + SumSCnum(node, revoked)))
     /\ (pc = "dump" =>
           localshortcut' = localshortcut + SumSCnumList(node, HeadNodeList))]_vars

C5_Witness ==
  /\ pc = "done"
  /\ localshortcut = 2
  /\ \E b \in Built, c \in Built :
       /\ node[b].haveSC /\ node[b].SCnum = 2
       /\ c \in PathNodes(node, b) /\ node[c].haveSC
  /\ \E b \in Built :
       /\ node[b].haveSC /\ node[b].SCnum = 1
       /\ \A c \in PathNodes(node, b) : ~node[c].haveSC

\* C6: in every state an object that is in the SCmidnodeset of an object is
\* no head, and an object that is no head never becomes one.
C6_AbsorbedNotHead ==
  [][(\A n \in Blocks : \A m \in node'[n].SCmidnodeset : ~node'[m].head)
     /\ (\A x \in Blocks : (node[x].exists /\ ~node[x].head) => ~node'[x].head)]_vars

C6_Witness ==
  \E n \in Built, m \in Built, x \in Built :
    /\ node[n].haveSC
    /\ m \in PathNodes(node, n) /\ node[m].haveSC /\ ~node[m].head
    /\ x \in node[m].SCmidnodeset /\ x \in node[n].SCmidnodeset
    /\ x \notin PathNodes(node, n)

\* This step is the second of two runs of dumpShortcut in a row.
SecondRun == pc = "done" /\ pc' = "redumped"

\* C7 as stated: a second run of dumpShortcut over the same head list and
\* objects leaves the local shortcut count and the local set count as the
\* first run left them, and prints the same trees.
C7_Idempotent ==
  [][SecondRun =>
       /\ treeOut' = treeOut
       /\ localshortcut' = localshortcut
       /\ localSCset' = localSCset]_vars

\* C7 as amended: a second run of dumpShortcut over the same head list and
\* objects prints the same trees and changes neither the list nor the
\* objects, but it adds the SCnum of every listed head to the local
\* shortcut count and the number of listed heads to the local set count
\* once more.
C7_SecondRunAccumulates ==
  [][SecondRun =>
       /\ treeOut' = treeOut
       /\ node' = node /\ HeadNodeList' = HeadNodeList
       /\ localshortcut' = localshortcut + SumSCnumList(node, HeadNodeList)
       /\ localSCset' = localSCset + Len(HeadNodeList)]_vars

C7_Witness ==
  /\ pc = "redumped"
  /\ treeOut # <<>>
  /\ \E i \in 1 .. Len(HeadNodeList) : node[HeadNodeList[i]].SCnum = 2
  /\ localshortcut = 4
  /\ localSCset = 2

\* The chain children of the object of block n.
ChainChildren(n) == node[n].leftchildrenset \cup node[n].rightchildrenset

\* C8 as stated: every key of the block -> ChildrenSet map is in nodeset and
\* not in leafset, and so is every head of the function in the head list.
C8_NoLeafKey ==
  Classified =>
    /\ \A b \in SCSetMap : b \in nodeset /\ b \notin leafset
    /\ \A i \in 1 .. Len(HeadNodeList) :
         HeadNodeList[i] \in CurBlocks => HeadNodeList[i] \notin leafset

\* C8 as amended: every key of the map is in nodeset and no block outside
\* nodeset gets an object; a key may be in leafset as well (a two-way block
\* that failed the only-branch test), and such a block can be a listed
\* head, but it is never a chain child of an object nor in an SCmidnodeset.
C8_KeysAreCandidates ==
  Classified =>
    /\ \A b \in SCSetMap :
         /\ b \in nodeset
         /\ b \in leafset =>
              /\ NotOnlyBranch(b)
              /\ \A n \in Built : b \notin ChainChildren(n) \cup node[n].SCmidnodeset
    /\ \A b \in CurBlocks \ nodeset : ~node[b].exists

C8_Witness ==
  /\ Classified
  /\ \E i \in 1 .. Len(HeadNodeList) : HeadNodeList[i] \in leafset \cap SCSetMap
  /\ \E b \in SCSetMap : ChainChildren(b) # {}

\* The positions of the head list that hold heads of the function cur.
OwnHeads == {i \in 1 .. Len(HeadNodeList) : FuncEntry(HeadNodeList[i]) = cur}

\* C9: while edges are built and the report is made for a function, the head
\* list holds heads of that function only; the local counts reported for
\* the last function count its own heads, and the global totals count every
\* verified head once.
C9_HeadListPerFunction ==
  /\ pc \in {"edges", "dump"} => OwnHeads = 1 .. Len(HeadNodeList)
  /\ pc = "done" =>
       /\ localSCset = Cardinality(OwnHeads)
       /\ localshortcut = SumSCnum(node, {HeadNodeList[i] : i \in OwnHeads})
       /\ NumShortcutSet = Len(HeadNodeList)
       /\ NumShortcut = SumSCnumList(node, HeadNodeList)

\* C10: no successor of a block in nodeset dominates the block.
C10_BackEdgeExclusion ==
  Classified => \A b \in nodeset : \A t \in Successors(b) : ~dominates(t, b)

C10_Witness ==
  /\ Classified
  /\ nodeset # {}
  /\ \E b \in CurBlocks \ nodeset :
       isTwowayBranch(b) /\ isReachableFromEntry(b) /\ b \in Successors(b)
  /\ \E b \in CurBlocks \ nodeset :
       /\ isTwowayBranch(b) /\ isReachableFromEntry(b) /\ b \notin Successors(b)
       /\ \E t \in Successors(b) : dominates(t, b)

\* The CFG B0 -> (B1, L), B1 -> (L, R) in the function at work, B0 its entry.
ScenarioB(b0, b1, l, r) ==
  /\ b0 = cur
  /\ term[b0] = [kind |-> "cbr", succ |-> <<b1, l>>]
  /\ term[b1] = [kind |-> "cbr", succ |-> <<l, r>>]
  /\ Cardinality({b0, b1, l, r}) = 4

\* A block x outside the chain whose edge x -> b1 is a loop back edge.
LoopInto(b0, b1, x) ==
  /\ x \notin {b0, b1}
  /\ isReachableFromEntry(x)
  /\ b1 \in Successors(x)
  /\ dominates(b1, x)

\* The chain builder and the head selection have run for the function.
HeadsSelected == pc \in {"edges", "dump", "done"}

InHeadList(b) == \E i \in 1 .. Len(HeadNodeList) : HeadNodeList[i] = b

\* C11 as stated: with a loop back edge x -> B1 from outside the chain, B1 is
\* in leafset, B0 has no shortcut and the head list is empty.
C11_LoopTargetIsLeaf ==
  HeadsSelected =>
    \A b1, l, r \in Blocks :
      ScenarioB(cur, b1, l, r) =>
        \A x \in Blocks :
          LoopInto(cur, b1, x) =>
            /\ b1 \in leafset
            /\ ~node[cur].haveSC
            /\ HeadNodeList = <<>>

\* C11 as amended: the back-edge test reads the block's own successors, so
\* it is the source x of the back edge that is in leafset only; B0 and B1
\* stay in nodeset, and B1 is in leafset exactly when it fails the
\* only-branch test.  With L and R leaves and B1 not in leafset the chain is
\* built: B0 has a shortcut on its right child, SCnum 1, and is a listed
\* head; with B1 in leafset B0 has two leaf children and no shortcut.
C11_LoopSourceIsLeaf ==
  HeadsSelected =>
    \A b1, l, r \in Blocks :
      ScenarioB(cur, b1, l, r) =>
        \A x \in Blocks :
          LoopInto(cur, b1, x) =>
            /\ x \in leafset \ nodeset
            /\ {cur, b1} \subseteq nodeset
            /\ (b1 \in leafset) <=> NotOnlyBranch(b1)
            /\ ({l, r} \subseteq leafset /\ b1 \notin leafset) =>
                 /\ node[cur].haveSC /\ node[cur].isrightSC /\ ~node[cur].isleftSC
                 /\ node[cur].SCnum = 1
                 /\ node[cur].SCmidnodeset = {b1}
                 /\ InHeadList(cur)
            /\ (l \in leafset /\ b1 \in leafset) =>
                 /\ node[cur].exists /\ LeafPair(cur)
                 /\ ~node[cur].haveSC /\ ~InHeadList(cur)

C11_Witness ==
  /\ pc = "done"
  /\ \E b1, l, r, x \in Blocks :
       /\ ScenarioB(cur, b1, l, r)
       /\ LoopInto(cur, b1, x)
       /\ b1 \notin leafset
       /\ node[cur].haveSC
       /\ InHeadList(cur)

\* conSCSetMap is inside its do-while.
InScan == pc = "build" /\ pos >= 1

\* What is left of the do-while at most: the scans that can still start and
\* the visits left of the scan under way.
ScanMeasure ==
  (Cardinality(nodeset) + 1 - scans) * (Cardinality(nodeset) + 2)
    + (Cardinality(nodeset) + 1 - pos)

\* C12: the do-while of conSCSetMap terminates.  The first scan is scan 1;
\* a visit sets changed exactly when it adds a key to the map, keys are
\* never removed and are blocks of nodeset; another scan starts only after
\* a full scan that set changed, so that scans <= keys + 1 <= candidates + 1;
\* and every step inside the do-while decreases a measure that is never
\* negative.
C12_FixpointTerminates ==
  [][/\ (pc = "build" /\ pos = 0 /\ pos' # 0) => (scans' = 1 /\ ~changed')
     /\ InScan =>
          /\ scans <= Cardinality(SCSetMap) + 1
          /\ SCSetMap \subseteq SCSetMap'
          /\ SCSetMap' \subseteq nodeset
          /\ scans' <= Cardinality(nodeset) + 1
          /\ (pos <= Len(order)) =>
               (changed' = (changed \/ SCSetMap' # SCSetMap))
          /\ (scans' # scans) =>
               /\ scans' = scans + 1
               /\ pos = Len(order) + 1
               /\ changed
               /\ Cardinality(SCSetMap) >= scans
          /\ (pc' = "build") => (ScanMeasure' < ScanMeasure /\ ScanMeasure' >= 0)
          /\ (pc' # "build") => (pc' = "edges" /\ ~changed)]_vars

C12_Witness ==
  /\ pc = "edges"
  /\ Cardinality(nodeset) = 3
  /\ SCSetMap = nodeset
  /\ scans = Cardinality(nodeset) + 1

\* The candidates both of whose branch targets are a leaf or a key of M.
Resolvable(M) ==
  {b \in nodeset : \A i \in 1 .. 2 : term[b].succ[i] \in leafset \cup M}

\* The least set of candidates closed under Resolvable.
RECURSIVE LeastFixpoint(_)
LeastFixpoint(M) ==
  IF Resolvable(M) \subseteq M THEN M ELSE LeastFixpoint(M \cup Resolvable(M))

\* The candidates that can only be chain children, and those of them that
\* can be reached from the blocks S along branches between such candidates.
ChainOnly == nodeset \ leafset

RECURSIVE ChainReach(_)
ChainReach(S) ==
  LET N == S \cup {t \in ChainOnly : \E b \in S : t \in Successors(b)}
  IN IF N = S THEN S ELSE ChainReach(N)

OnCycle(b) == b \in ChainOnly /\ b \in ChainReach(Successors(b) \cap ChainOnly)

\* What the constructors fix of an object for good.
Shape(n) ==
  <<n.exists, n.level, n.leftchildBB, n.rightchildBB,
    n.leftchildrenset, n.rightchildrenset,
    n.haveSC, n.isleftSC, n.isrightSC, n.mySCpath, n.nummidnodes,
    n.SCmidnodeset, n.SCnum>>

\* The child pointer for branch target t: the leaf block or the object.
AsLeaf(t) == IF t \in leafset THEN {t} ELSE {}

AsChain(t) == IF t \in leafset THEN {} ELSE {t}

\* The state conSCSetMap leaves behind.
FixpointReached ==
  /\ SCSetMap = LeastFixpoint({})
  /\ \A b \in nodeset :
       b \in SCSetMap <=> \A i \in 1 .. 2 : term[b].succ[i] \in leafset \cup SCSetMap
  /\ \A b \in nodeset : OnCycle(b) => b \notin SCSetMap
  /\ \A b \in CurBlocks : node[b].exists <=> b \in SCSetMap
  /\ \A b \in SCSetMap :
       /\ node[b].leftchildBB = AsLeaf(term[b].succ[1])
       /\ node[b].leftchildrenset = AsChain(term[b].succ[1])
       /\ node[b].rightchildBB = AsLeaf(term[b].succ[2])
       /\ node[b].rightchildrenset = AsChain(term[b].succ[2])
       /\ \A c \in ChainChildren(b) : c \in SCSetMap /\ node[c].level < node[b].level

\* C13: when conSCSetMap has returned, the keys of the map are the least
\* fixpoint: a candidate is a key exactly when each of its branch targets is
\* in leafset or a key, a candidate on a cycle of candidates that can only
\* be chain children is no key, the blocks of the function with an object
\* are the keys, every object has the children its block branches to and
\* its chain children were built before it; and an object, once built, is
\* never built again.
C13_LeastFixpoint ==
  [][((pc = "build" /\ pc' = "edges") => FixpointReached')
     /\ (node' # node =>
           \A b \in Blocks : node[b].exists => Shape(node'[b]) = Shape(node[b]))]_vars

C13_Witness ==
  /\ pc = "edges"
  /\ scans = 3
  /\ \E p \in SCSetMap, c \in SCSetMap :
       /\ c \in ChainChildren(p)
       /\ \E i, k \in 1 .. Len(order) : i < k /\ order[i] = p /\ order[k] = c
  /\ \E l \in nodeset \cap leafset : l \in SCSetMap

\* The objects reachable from the objects S through chain-child links.
RECURSIVE Tree(_, _)
Tree(h, S) ==
  LET N == S \cup UNION {h[c].leftchildrenset \cup h[c].rightchildrenset : c \in S}
  IN IF N = S THEN S ELSE Tree(h, N)

\* The blocks of the children of object d, leaf or chain.
ChildBlocks(h, d) ==
  h[d].leftchildBB \cup h[d].rightchildBB
    \cup h[d].leftchildrenset \cup h[d].rightchildrenset

\* The least number of chain-child links from the objects of frontier (at
\* depth k) to an object with a child block key; -1 when there is none.
RECURSIVE MinDepth(_, _, _, _, _)
MinDepth(h, key, frontier, seen, k) ==
  IF frontier = {} THEN -1
  ELSE IF \E d \in frontier : key \in ChildBlocks(h, d) THEN k
  ELSE MinDepth(h, key,
                UNION {h[d].leftchildrenset \cup h[d].rightchildrenset :
                         d \in frontier} \ seen,
                seen \cup frontier, k + 1)

\* The object the path of object b ends at.
RECURSIVE Walk(_, _, _)
Walk(h, c, path) ==
  IF Len(path) <= 1 THEN c
  ELSE Walk(h,
            IF Head(path) THEN The(h[c].leftchildrenset)
            ELSE The(h[c].rightchildrenset),
            Tail(path))

MatchedNode(h, b) ==
  Walk(h,
       IF h[b].isleftSC THEN The(h[b].rightchildrenset)
       ELSE The(h[b].leftchildrenset),
       h[b].mySCpath)

\* The child of object m on the side the last entry of the path names.
MatchedChild(h, m, path) ==
  IF path[Len(path)] THEN h[m].leftchildBB \cup h[m].leftchildrenset
  ELSE h[m].rightchildBB \cup h[m].rightchildrenset

\* Object b of heap h has one leaf child and one chain child.
LeafAndChain(h, b) ==
  /\ h[b].exists
  /\ Cardinality(h[b].leftchildBB \cup h[b].rightchildBB) = 1
  /\ Cardinality(h[b].leftchildrenset \cup h[b].rightchildrenset) = 1

LeafAndLeaf(h, b) ==
  h[b].exists /\ h[b].leftchildBB # {} /\ h[b].rightchildBB # {}

\* The search of a new object with a leaf child S and a chain child C: it has
\* a shortcut, and is a head, exactly when an object reachable from C has a
\* child block S, and then the matched object is one of least depth; an
\* object with two leaf children has no shortcut and is no head.
C14_Search ==
  /\ \A b \in Blocks :
       (~node[b].exists /\ LeafAndChain(node', b)) =>
         LET n == node'[b]
             S == The(n.leftchildBB \cup n.rightchildBB)
             C == n.leftchildrenset \cup n.rightchildrenset
         IN /\ n.haveSC <=> \E d \in Tree(node', C) : S \in ChildBlocks(node', d)
            /\ n.head <=> n.haveSC
            /\ n.haveSC =>
                 /\ MatchedNode(node', b) \in Tree(node', C)
                 /\ S \in MatchedChild(node', MatchedNode(node', b), n.mySCpath)
                 /\ Len(n.mySCpath) - 1 = MinDepth(node', S, C, {}, 0)
                 /\ n.nummidnodes = Len(n.mySCpath)
  /\ \A b \in Blocks :
       LeafAndLeaf(node', b) => (~node'[b].haveSC /\ ~node'[b].head)

\* The report of a function all of whose objects have two leaf children
\* counts no shortcut and no shortcut set.
C14_Report ==
  (pc = "dump" /\ \A b \in SCSetMap : LeafAndLeaf(node, b)) =>
    (localshortcut' = 0 /\ localSCset' = 0)

\* C14: an object with a leaf child S and a chain child C has a shortcut, and
\* is a head when built, exactly when an object reachable from C through
\* chain-child links has a child (leaf block or chain child's block) equal
\* to S, the matched object being of least breadth-first depth; an object
\* with two leaf children never has a shortcut and is never a head, and a
\* function with only such objects reports zero shortcuts.
C14_SiblingSearch == [][C14_Search /\ C14_Report]_vars

\* conSCSetMap run from its start on the function at work with nodeset
\* iterated in the order ord: no block of the function has an object yet.
FreshRun(ord) ==
  conSCSetMapDoWhile(
    [heap |-> [b \in Blocks |-> IF b \in CurBlocks THEN NoNode ELSE node[b]],
     map |-> {}, changed |-> FALSE, scans |-> 0, asserted |-> {}, ok |-> TRUE],
    ord)

\* What chain construction decides about the object of block b in heap h.
Outcome(h, b) ==
  <<h[b].exists, h[b].haveSC, h[b].head, h[b].SCmidnodeset, h[b].SCnum>>

\* The heads of the function that pass and that fail verify_domination.
HeadsPassing(h) ==
  {b \in CurBlocks : h[b].exists /\ h[b].head /\ verify_domination(h, b)}

HeadsFailing(h) ==
  {b \in CurBlocks : h[b].exists /\ h[b].head /\ ~verify_domination(h, b)}

\* C15: when conSCSetMap has returned, every object of the function has the
\* shortcut flag, head flag, member set and SCnum, and the same heads pass
\* and fail the dominance verification, as after a run of conSCSetMap that
\* iterates nodeset in any other order.
C15_ScanOrderIndependent ==
  pc = "edges" =>
    \A ord \in Perms(nodeset) :
      LET other == FreshRun(ord).heap
      IN /\ \A b \in CurBlocks : Outcome(node, b) = Outcome(other, b)
         /\ HeadsPassing(node) = HeadsPassing(other)
         /\ HeadsFailing(node) = HeadsFailing(other)

\* The child block the search of object b looked for, and the chain child
\* the search started at.
SearchKey(h, b) ==
  IF h[b].isleftSC THEN h[b].leftchildBB \cup h[b].leftchildrenset
  ELSE h[b].rightchildBB \cup h[b].rightchildrenset

SearchRoot(h, b) ==
  IF h[b].isleftSC THEN h[b].rightchildrenset ELSE h[b].leftchildrenset

\* C16: neither null-back-link assertion ever fails and no constructor stops
\* on one; and when a search matches, the walk up the back-links went from
\* the matched object to the search root: the path it recorded leads from
\* the root down the chain children to an object that has the key as the
\* child the path ends with, it has one entry per object walked, and every
\* object walked is in the member set.
C16_UplinkWalk ==
  [][/\ asserted' \cap {"uplinkPath", "uplinkSet"} = {}
     /\ (pc = "build") => (pc' # "abort")
     /\ \A b \in Blocks :
          BuildsShortcut(b) =>
            /\ SearchKey(node', b) =
                 MatchedChild(node', MatchedNode(node', b), node'[b].mySCpath)
            /\ Cardinality(PathNodes(node', b)) = Len(node'[b].mySCpath)
            /\ node'[b].nummidnodes = Len(node'[b].mySCpath)
            /\ SearchRoot(node', b) \subseteq PathNodes(node', b)
            /\ PathNodes(node', b) \subseteq node'[b].SCmidnodeset]_vars

C16_Witness ==
  \E b \in Built, o \in Built, y \in Built :
    /\ b # o
    /\ node[b].haveSC
    /\ Len(node[b].mySCpath) >= 2
    /\ y \in PathNodes(node, b) \ SearchRoot(node, b)
    /\ node[y].uplink # {}
    /\ ~node[o].haveSC
    /\ y \in Tree(node, ChainChildren(o)) \ ChainChildren(o)

\* The scope of the head at position i of the head list: the head and its
\* member set.
Scope(h, i) == {HeadNodeList[i]} \cup h[HeadNodeList[i]].SCmidnodeset

\* The objects of the scope S reachable from the objects R through
\* chain-child links that stay inside S.
RECURSIVE ScopeReach(_, _, _)
ScopeReach(h, R, S) ==
  LET N == R \cup (S \cap UNION {h[c].leftchildrenset \cup h[c].rightchildrenset :
                                   c \in R})
  IN IF N = R THEN R ELSE ScopeReach(h, N, S)

Positions == 1 .. Len(HeadNodeList)

\* The out-edges ChildrenSet::conEdgeGraph builds for the object of block c.
OutEdge0(h, c) == [from |-> c, to |-> The(h[c].leftchildBB \cup h[c].leftchildrenset)]

OutEdge1(h, c) == [from |-> c, to |-> The(h[c].rightchildBB \cup h[c].rightchildrenset)]

\* Every listed head and every member of its scope can be reached from the
\* head inside the scope and has both out-edges.
EdgesBuilt ==
  \A i \in Positions :
    /\ ScopeReach(node, {HeadNodeList[i]}, Scope(node, i)) = Scope(node, i)
    /\ \A c \in Scope(node, i) :
         /\ node[c].out0 = {OutEdge0(node, c)}
         /\ node[c].out1 = {OutEdge1(node, c)}

\* The in-scope objects that have m as a chain child, per head whose member
\* set m is in; and the chain-child links of those objects that lead to m.
ParentsInScope(m) ==
  {q \in Positions \X Blocks :
     /\ m \in node[HeadNodeList[q[1]]].SCmidnodeset
     /\ q[2] \in Scope(node, q[1])
     /\ m \in ChainChildren(q[2])}

LinksInScope(m) ==
  {q \in Positions \X Blocks \X {"out0", "out1"} :
     /\ m \in node[HeadNodeList[q[1]]].SCmidnodeset
     /\ q[2] \in Scope(node, q[1])
     /\ m \in (IF q[3] = "out0" THEN node[q[2]].leftchildrenset
               ELSE node[q[2]].rightchildrenset)}

\* The in-edges the object of block m has received in this step.
Received(m) == Len(node'[m].inEdges) - Len(node[m].inEdges)

\* The reporter finds every out-edge it asserts.
ReporterFindsEdges ==
  (pc = "dump") => (pc' # "abort" /\ asserted' \cap {"out0", "out1"} = {})

\* C17 as stated: after conEdgeGraph every listed head and every member of
\* its scope has both out-edges and is reachable from the head inside the
\* scope, the reporter's assertions on out0 and out1 hold, and in one run of
\* conEdgeGraph a member receives exactly one in-edge per in-scope object
\* that has it as a chain child.
C17_OneInEdgePerParent ==
  [][/\ (pc = "edges") =>
          /\ EdgesBuilt'
          /\ \A m \in Blocks : Received(m) = Cardinality(ParentsInScope(m))
     /\ ReporterFindsEdges]_vars

\* C17 as amended: as stated, but a member receives one in-edge per
\* chain-child link (out0, out1) of an in-scope object that leads to it: two
\* from an object both of whose branches lead to it; each received edge
\* goes from such an object to the member, and no other object receives
\* an in-edge.
C17_OneInEdgePerLink ==
  [][/\ (pc = "edges") =>
          /\ EdgesBuilt'
          /\ \A m \in Blocks :
               /\ Received(m) = Cardinality(LinksInScope(m))
               /\ \A k \in 1 .. Len(node'[m].inEdges) :
                    \/ /\ k <= Len(node[m].inEdges)
                       /\ node'[m].inEdges[k] = node[m].inEdges[k]
                    \/ /\ k > Len(node[m].inEdges)
                       /\ node'[m].inEdges[k].to = m
                       /\ \E q \in ParentsInScope(m) :
                            q[2] = node'[m].inEdges[k].from
     /\ ReporterFindsEdges]_vars

C17_Witness ==
  /\ pc = "done"
  /\ \E i \in Positions, p \in Blocks, m \in Blocks :
       /\ {p, m} \subseteq node[HeadNodeList[i]].SCmidnodeset
       /\ node[p].leftchildrenset = {m}
       /\ node[p].rightchildrenset = {m}
       /\ node[m].inEdges = <<[from |-> p, to |-> m], [from |-> p, to |-> m]>>
       /\ node[p].inEdges = <<[from |-> HeadNodeList[i], to |-> p]>>
       /\ node[m].out0 # {} /\ node[m].out1 # {}
====
